---- MODULE Spec2Model ----
(***************************************************************************)
(* The deployment resource of the RightScale Terraform provider: the five  *)
(* lifecycle callbacks (create, read, update, delete, exists) of           *)
(* rs/resource.go and rs/resource_deployment.go, the resource data `d`     *)
(* they work on, and the remote service they reach through rsc.Client.     *)
(*                                                                         *)
(* A string is a sequence of one-character strings, so that strings.Split  *)
(* and string concatenation are computed character by character.           *)
(***************************************************************************)
EXTENDS Integers, Sequences, FiniteSets, TLC

VARIABLES
    id,          \* d.Id()
    fields,      \* d's fields "name" and "locked" as the last callback left them
    partial,     \* d.Partial(on)
    partialKeys, \* keys given to d.SetPartial
    remote,      \* the remote service: href -> fields of the deployment there
    calls,       \* the remote calls the last callback issued, in order
    last         \* the last callback: its name, its inputs and what it returned

vars == <<id, fields, partial, partialKeys, remote, calls, last>>

----------------------------------------------------------------------------
(* Bounds *)

MaxIdLen == 3          \* longest ID a stored state starts with
MaxHrefLen == 1        \* longest href the remote service hands out
MaxDeployments == 2    \* deployments the remote service holds at once

----------------------------------------------------------------------------
(* Strings *)

Sep == ":"
Alphabet == {"a", Sep}
RsCm == <<"r", "s", "_", "c", "m">>
Names == {"web", "db"}

StrUpTo(n) == UNION {[1..k -> Alphabet] : k \in 0..n}
Ids == StrUpTo(MaxIdLen)
Hrefs == StrUpTo(MaxHrefLen) \ {<<>>}

\* strings.Split(s, sep) for a one-character separator
RECURSIVE Split(_, _)
Split(s, sep) ==
    IF \A i \in 1..Len(s) : s[i] # sep
    THEN <<s>>
    ELSE LET i == CHOOSE k \in 1..Len(s) :
                      s[k] = sep /\ \A j \in 1..(k - 1) : s[j] # sep
         IN  <<SubSeq(s, 1, i - 1)>> \o Split(SubSeq(s, i + 1, Len(s)), sep)

----------------------------------------------------------------------------
(* Errors *)

Nil == "nil"
ErrNotFound == "rsc.ErrNotFound"
ErrInvalidID == "invalid resource ID"
ErrOther == "remote error"
ErrLocked == "deployment is locked"

LockAction == "@res.lock()"
UnlockAction == "@res.unlock()"

----------------------------------------------------------------------------
(* rsc.Client: the remote service.  A result is absent ({}) or present     *)
(* ({x}).  A call that fails changes nothing remotely.                     *)

Found(rem, loc) == loc.Namespace = RsCm /\ loc.Href \in DOMAIN rem

Without(rem, href) == [h \in (DOMAIN rem) \ {href} |-> rem[h]]

ClientCreate(rem, namespace, flds) ==
    {[err |-> ErrOther, rem |-> rem, loc |-> {}, res |-> {}]}
    \cup
    IF Cardinality(DOMAIN rem) >= MaxDeployments THEN {}
    ELSE {[err |-> Nil,
           rem |-> [x \in (DOMAIN rem) \cup {h} |->
                       IF x = h THEN [name |-> flds.name, locked |-> FALSE]
                       ELSE rem[x]],
           loc |-> {[Namespace |-> namespace, Href |-> h]},
           res |-> {[name |-> flds.name, locked |-> FALSE]}]
          : h \in Hrefs \ DOMAIN rem}

ClientGet(rem, loc) ==
    IF Found(rem, loc)
    THEN {[err |-> Nil, rem |-> rem, res |-> {rem[loc.Href]}],
          [err |-> ErrOther, rem |-> rem, res |-> {}]}
    ELSE {[err |-> ErrNotFound, rem |-> rem, res |-> {}],
          [err |-> ErrOther, rem |-> rem, res |-> {}]}

ClientUpdate(rem, loc, flds) ==
    IF Found(rem, loc)
    THEN {[err |-> Nil, rem |-> [rem EXCEPT ![loc.Href].name = flds.name]],
          [err |-> ErrOther, rem |-> rem]}
    ELSE {[err |-> ErrNotFound, rem |-> rem],
          [err |-> ErrOther, rem |-> rem]}

\* a locked deployment is protected: the service rejects its deletion
ClientDelete(rem, loc) ==
    IF ~Found(rem, loc)
    THEN {[err |-> ErrNotFound, rem |-> rem], [err |-> ErrOther, rem |-> rem]}
    ELSE IF rem[loc.Href].locked
    THEN {[err |-> ErrLocked, rem |-> rem]}
    ELSE {[err |-> Nil, rem |-> Without(rem, loc.Href)],
          [err |-> ErrOther, rem |-> rem]}

ClientRun(rem, loc, action) ==
    IF Found(rem, loc)
    THEN {[err |-> Nil,
           rem |-> [rem EXCEPT ![loc.Href].locked = (action = LockAction)]],
          [err |-> ErrOther, rem |-> rem]}
    ELSE {[err |-> ErrNotFound, rem |-> rem],
          [err |-> ErrOther, rem |-> rem]}

Call(op, loc, action, err) ==
    [op |-> op, loc |-> loc, action |-> action, err |-> err]

----------------------------------------------------------------------------
(* rs/resource.go *)

\* mutant of locator: any ID with a separator is taken, the rest dropped
locatorAtLeastTwo(d_id) ==
    LET parts == Split(d_id, Sep)
    IN  IF Len(parts) < 2
        THEN [loc |-> {}, err |-> ErrInvalidID]
        ELSE [loc |-> {[Namespace |-> parts[1], Href |-> parts[2]]},
              err |-> Nil]

\* locator builds a locator from d.Id(): loc is {} with an error
locator(d_id) ==
    LET parts == Split(d_id, Sep)
    IN  IF Len(parts) # 2
        THEN [loc |-> {}, err |-> ErrInvalidID]
        ELSE [loc |-> {[Namespace |-> parts[1], Href |-> parts[2]]},
              err |-> Nil]

The(S) == CHOOSE x \in S : TRUE

\* mutant of handleRSCError: not found is swallowed but the ID is kept
handleRSCErrorKeepsId(d_id, err) ==
    IF err = ErrNotFound
    THEN [id |-> d_id, err |-> Nil]
    ELSE [id |-> d_id, err |-> err]

\* handleRSCError: not found clears the ID and is swallowed
handleRSCError(d_id, err) ==
    IF err = ErrNotFound
    THEN [id |-> <<>>, err |-> Nil]
    ELSE [id |-> d_id, err |-> err]

Result(op, cfg, err, exists) ==
    [op |-> op, cfg |-> cfg, idBefore |-> id, err |-> err, exists |-> exists]

resourceRead ==
    LET l == locator(id)
    IN  /\ partial' = FALSE
        /\ partialKeys' = {}
        /\ IF l.err # Nil
           THEN /\ last' = Result("read", fields, l.err, FALSE)
                /\ calls' = <<>>
                /\ UNCHANGED <<id, fields, remote>>
           ELSE \E g \in ClientGet(remote, The(l.loc)) :
                  /\ calls' = <<Call("Get", l.loc, "", g.err)>>
                  /\ remote' = g.rem
                  /\ IF g.err # Nil
                     THEN LET h == handleRSCError(id, g.err)
                          IN  /\ id' = h.id
                              /\ last' = Result("read", fields, h.err, FALSE)
                              /\ UNCHANGED fields
                     ELSE /\ fields' = The(g.res)
                          /\ last' = Result("read", fields, Nil, FALSE)
                          /\ UNCHANGED id

\* mutant of resourceDelete: the deployment is unlocked before the Delete
resourceDeleteUnlocksFirst ==
    LET l == locator(id)
    IN  /\ partial' = FALSE
        /\ partialKeys' = {}
        /\ UNCHANGED <<id, fields>>
        /\ IF l.err # Nil
           THEN /\ last' = Result("delete", fields, l.err, FALSE)
                /\ calls' = <<>>
                /\ UNCHANGED remote
           ELSE \E u \in ClientRun(remote, The(l.loc), UnlockAction) :
                  \E r \in ClientDelete(u.rem, The(l.loc)) :
                    /\ calls' = <<Call("Run", l.loc, UnlockAction, u.err),
                                  Call("Delete", l.loc, "", r.err)>>
                    /\ remote' = r.rem
                    /\ last' = Result("delete", fields, r.err, FALSE)

resourceDelete ==
    LET l == locator(id)
    IN  /\ partial' = FALSE
        /\ partialKeys' = {}
        /\ UNCHANGED <<id, fields>>
        /\ IF l.err # Nil
           THEN /\ last' = Result("delete", fields, l.err, FALSE)
                /\ calls' = <<>>
                /\ UNCHANGED remote
           ELSE \E r \in ClientDelete(remote, The(l.loc)) :
                  /\ calls' = <<Call("Delete", l.loc, "", r.err)>>
                  /\ remote' = r.rem
                  /\ last' = Result("delete", fields, r.err, FALSE)

\* mutant of resourceExists: not found is swallowed, as read does
resourceExistsSwallowsNotFound ==
    LET l == locator(id)
    IN  /\ partial' = FALSE
        /\ partialKeys' = {}
        /\ UNCHANGED <<id, fields>>
        /\ IF l.err # Nil
           THEN /\ last' = Result("exists", fields, l.err, FALSE)
                /\ calls' = <<>>
                /\ UNCHANGED remote
           ELSE \E g \in ClientGet(remote, The(l.loc)) :
                  /\ calls' = <<Call("Get", l.loc, "", g.err)>>
                  /\ remote' = g.rem
                  /\ IF g.err = ErrNotFound
                     THEN last' = Result("exists", fields, Nil, FALSE)
                     ELSE IF g.err # Nil
                     THEN last' = Result("exists", fields, g.err, FALSE)
                     ELSE last' = Result("exists", fields, Nil, g.res # {})

resourceExists ==
    LET l == locator(id)
    IN  /\ partial' = FALSE
        /\ partialKeys' = {}
        /\ UNCHANGED <<id, fields>>
        /\ IF l.err # Nil
           THEN /\ last' = Result("exists", fields, l.err, FALSE)
                /\ calls' = <<>>
                /\ UNCHANGED remote
           ELSE \E g \in ClientGet(remote, The(l.loc)) :
                  /\ calls' = <<Call("Get", l.loc, "", g.err)>>
                  /\ remote' = g.rem
                  /\ IF g.err # Nil
                     THEN last' = Result("exists", fields, g.err, FALSE)
                     ELSE last' = Result("exists", fields, Nil, g.res # {})

----------------------------------------------------------------------------
(* rs/resource_deployment.go *)

Configs == [name : Names, locked : BOOLEAN]

\* of the fields sent, "name" is the one d always has
deploymentFields(d) == [name |-> d.name]

\* mutant of updateLock: the locator's error is dropped
updateLockIgnoresLocator(d_id, d_locked, rem) ==
    LET l == locator(d_id)
    IN  IF l.err # Nil
        THEN {[err |-> Nil, rem |-> rem, calls |-> <<>>]}
        ELSE LET action == IF d_locked THEN LockAction ELSE UnlockAction
             IN  {[err |-> r.err, rem |-> r.rem,
                   calls |-> <<Call("Run", l.loc, action, r.err)>>]
                  : r \in ClientRun(rem, The(l.loc), action)}

\* mutant of updateLock: it locks, and never unlocks
updateLockOnlyLocks(d_id, d_locked, rem) ==
    LET l == locator(d_id)
    IN  IF l.err # Nil
        THEN {[err |-> l.err, rem |-> rem, calls |-> <<>>]}
        ELSE IF ~d_locked
        THEN {[err |-> Nil, rem |-> rem, calls |-> <<>>]}
        ELSE {[err |-> r.err, rem |-> r.rem,
               calls |-> <<Call("Run", l.loc, LockAction, r.err)>>]
              : r \in ClientRun(rem, The(l.loc), LockAction)}

\* mutant of updateLock: the error of the remote action is dropped
updateLockSwallowsRun(d_id, d_locked, rem) ==
    LET l == locator(d_id)
    IN  IF l.err # Nil
        THEN {[err |-> l.err, rem |-> rem, calls |-> <<>>]}
        ELSE LET action == IF d_locked THEN LockAction ELSE UnlockAction
             IN  {[err |-> Nil, rem |-> r.rem,
                   calls |-> <<Call("Run", l.loc, action, r.err)>>]
                  : r \in ClientRun(rem, The(l.loc), action)}

\* updateLock locks or unlocks according to d's "locked", at d's locator
updateLock(d_id, d_locked, rem) ==
    LET l == locator(d_id)
    IN  IF l.err # Nil
        THEN {[err |-> l.err, rem |-> rem, calls |-> <<>>]}
        ELSE LET action == IF d_locked THEN LockAction ELSE UnlockAction
             IN  {[err |-> r.err, rem |-> r.rem,
                   calls |-> <<Call("Run", l.loc, action, r.err)>>]
                  : r \in ClientRun(rem, The(l.loc), action)}

\* the error handler resourceDeploymentUpdate returns through
handleError(d_id, err) == [id |-> d_id, err |-> err]

\* mutant of cleanupError: a failed cleanup reports its own error
cleanupErrorOfDelete(lockErr, delErr) ==
    IF delErr # Nil THEN delErr ELSE lockErr

\* the lock step failed: the deployment is deleted, errors of that ignored
cleanupError(lockErr, delErr) == lockErr

SetId(loc) == loc.Namespace \o <<Sep>> \o loc.Href

\* The host calls Create for a resource that has no ID yet.  mustLock is
\* read before the fields of the created resource are copied into d;
\* updateLock reads d, its ID and its "locked", after the copy.
resourceDeploymentCreate ==
    /\ id = <<>>
    /\ partial' = FALSE
    /\ partialKeys' = {}
    /\ \E cfg \in Configs :
         LET mustLock == cfg.locked
         IN  \E c \in ClientCreate(remote, RsCm, deploymentFields(cfg)) :
               LET create == Call("Create", c.loc, "", c.err)
               IN  IF c.err # Nil
                   THEN /\ last' = Result("create", cfg, c.err, FALSE)
                        /\ calls' = <<create>>
                        /\ fields' = cfg
                        /\ remote' = c.rem
                        /\ UNCHANGED id
                   ELSE LET d1 == The(c.res)
                            resLocator == The(c.loc)
                        IN  IF mustLock
                            THEN \E u \in updateLock(id, d1.locked, c.rem) :
                                   IF u.err # Nil
                                   THEN \E del \in ClientDelete(u.rem, resLocator) :
                                          /\ calls' = <<create>> \o u.calls \o
                                                <<Call("Delete", c.loc, "", del.err)>>
                                          /\ remote' = del.rem
                                          /\ last' = Result("create", cfg,
                                                 cleanupError(u.err, del.err), FALSE)
                                          /\ fields' = d1
                                          /\ UNCHANGED id
                                   ELSE /\ calls' = <<create>> \o u.calls
                                        /\ remote' = u.rem
                                        /\ fields' = [d1 EXCEPT !.locked = TRUE]
                                        /\ id' = SetId(resLocator)
                                        /\ last' = Result("create", cfg, Nil, FALSE)
                            ELSE /\ calls' = <<create>>
                                 /\ remote' = c.rem
                                 /\ fields' = d1
                                 /\ id' = SetId(resLocator)
                                 /\ last' = Result("create", cfg, Nil, FALSE)

resourceDeploymentUpdate ==
    \E cfg \in Configs :
      LET l == locator(id)
      IN  /\ fields' = cfg
          /\ IF l.err # Nil
             THEN /\ partial' = TRUE
                  /\ partialKeys' = {}
                  /\ calls' = <<>>
                  /\ last' = Result("update", cfg, l.err, FALSE)
                  /\ UNCHANGED <<id, remote>>
             ELSE \E u \in updateLock(id, cfg.locked, remote) :
                    IF u.err # Nil
                    THEN LET h == handleError(id, u.err)
                         IN  /\ partial' = TRUE
                             /\ partialKeys' = {}
                             /\ calls' = u.calls
                             /\ remote' = u.rem
                             /\ id' = h.id
                             /\ last' = Result("update", cfg, h.err, FALSE)
                    ELSE \E up \in ClientUpdate(u.rem, The(l.loc), deploymentFields(cfg)) :
                           /\ calls' = u.calls \o <<Call("Update", l.loc, "", up.err)>>
                           /\ remote' = up.rem
                           /\ IF up.err # Nil
                              THEN LET h == handleError(id, up.err)
                                   IN  /\ partial' = TRUE
                                       /\ partialKeys' = {"locked"}
                                       /\ id' = h.id
                                       /\ last' = Result("update", cfg, h.err, FALSE)
                              ELSE /\ partial' = FALSE
                                   /\ partialKeys' = {}
                                   /\ UNCHANGED id
                                   /\ last' = Result("update", cfg, Nil, FALSE)

----------------------------------------------------------------------------

Init ==
    /\ id \in Ids
    /\ fields \in Configs
    /\ partial = FALSE
    /\ partialKeys = {}
    /\ remote = <<>>
    /\ calls = <<>>
    /\ last = [op |-> "none", cfg |-> fields, idBefore |-> id, err |-> Nil,
               exists |-> FALSE]

Next ==
    \/ resourceDeploymentCreate
    \/ resourceRead
    \/ resourceDeploymentUpdate
    \/ resourceDelete
    \/ resourceExists

Spec == Init /\ [][Next]_vars

----------------------------------------------------------------------------
(* Vocabulary of the properties *)

CountSep(s) == Cardinality({i \in 1..Len(s) : s[i] = Sep})
WellFormed(s) == CountSep(s) = 1

\* the locator a well-formed ID names: the text before and after the separator
Parsed(s) ==
    LET i == CHOOSE k \in 1..Len(s) : s[k] = Sep
    IN  [Namespace |-> SubSeq(s, 1, i - 1), Href |-> SubSeq(s, i + 1, Len(s))]

Ran(op) == last.op = op
RemoteCreated == Ran("create") /\ calls[1].err = Nil
Created == The(calls[1].loc)
CallsOf(op) == {i \in 1..Len(calls) : calls[i].op = op}
FailedCalls == {i \in 1..Len(calls) : calls[i].err # Nil}

\* the lock step of create: the locator of d, then the remote action
LockStepFails ==
    /\ RemoteCreated
    /\ last.cfg.locked
    /\ \/ ~WellFormed(last.idBefore)
       \/ \E i \in CallsOf("Run") : calls[i].err # Nil
LockStepError ==
    IF CallsOf("Run") = {} THEN ErrInvalidID
    ELSE calls[The(CallsOf("Run"))].err

----------------------------------------------------------------------------
(* C1: create with locked=true on a resource without ID, the remote Create *)
(* succeeding and no remote lock action failing, runs "@res.lock()" at the *)
(* created deployment and returns no error, with locked=true and the ID    *)
(* set to namespace:href of the returned locator.                          *)
C1_CreateLocks ==
    (/\ RemoteCreated
     /\ last.cfg.locked
     /\ last.idBefore = <<>>
     /\ \A i \in CallsOf("Run") : calls[i].err = Nil)
    => /\ last.err = Nil
       /\ \E i \in CallsOf("Run") :
            calls[i].action = LockAction /\ calls[i].loc = calls[1].loc
       /\ fields.locked
       /\ id = Created.Namespace \o <<Sep>> \o Created.Href

(* C2: after create the ID is non-empty exactly when create returned no    *)
(* error, and then the remote Create and, with locked=true, a lock action  *)
(* have succeeded.                                                         *)
C2_IdSetLast ==
    Ran("create") =>
        /\ (id # <<>>) <=> (last.err = Nil)
        /\ last.err = Nil =>
             /\ calls[1].op = "Create" /\ calls[1].err = Nil
             /\ last.cfg.locked =>
                  \E i \in CallsOf("Run") :
                    calls[i].action = LockAction /\ calls[i].err = Nil

C2_Witness ==
    /\ RemoteCreated
    /\ last.err # Nil
    /\ id = <<>>

(* C3: the lock step of create failing after the remote Create succeeded,  *)
(* exactly one Delete is issued, at the locator Create returned, as the    *)
(* last call, and create returns the lock step's error whatever the Delete *)
(* returned; the remote Create failing, it is the only call.               *)
C3_CompensatingDelete ==
    Ran("create") =>
        /\ LockStepFails =>
             /\ Cardinality(CallsOf("Delete")) = 1
             /\ calls[Len(calls)].op = "Delete"
             /\ calls[Len(calls)].loc = calls[1].loc
             /\ last.err = LockStepError
        /\ calls[1].err # Nil =>
             /\ Len(calls) = 1
             /\ last.err = calls[1].err

C3_Witness ==
    /\ LockStepFails
    /\ Len(calls) = 2
    /\ calls[2].op = "Delete"
    /\ calls[2].err \notin {Nil, last.err}
    /\ last.err = ErrInvalidID

(* C4: read with a well-formed ID: Get not found clears the ID and returns *)
(* no error; any other Get error is returned as it is, the ID and fields   *)
(* kept; Get succeeding, the ID is kept and the fields are the remote's.   *)
C4_ReadNotFound ==
    (Ran("read") /\ WellFormed(last.idBefore)) =>
        /\ Len(calls) = 1
        /\ calls[1].op = "Get"
        /\ calls[1].loc = {Parsed(last.idBefore)}
        /\ calls[1].err = ErrNotFound =>
             id = <<>> /\ last.err = Nil /\ fields = last.cfg
        /\ calls[1].err \notin {Nil, ErrNotFound} =>
             id = last.idBefore /\ last.err = calls[1].err /\ fields = last.cfg
        /\ calls[1].err = Nil =>
             /\ id = last.idBefore
             /\ last.err = Nil
             /\ fields = remote[Parsed(last.idBefore).Href]

C4_Witness ==
    /\ Ran("read")
    /\ WellFormed(last.idBefore)
    /\ calls[1].err = ErrNotFound
    /\ id = <<>>
    /\ last.err = Nil

(* C5: locator returns a locator exactly for the IDs with one ':', made of *)
(* the text before it and the text after it; every other ID, the empty one *)
(* included, is an error and no remote call is made.                       *)
C5_LocatorShape ==
    /\ \A s \in {id, last.idBefore} :
         /\ (locator(s).err = Nil) <=> WellFormed(s)
         /\ WellFormed(s) => locator(s).loc = {Parsed(s)}
         /\ ~WellFormed(s) =>
              locator(s) = [loc |-> {}, err |-> ErrInvalidID]
    /\ last.op \in {"read", "update", "delete", "exists"} =>
         IF WellFormed(last.idBefore)
         THEN calls # <<>> /\ calls[1].loc = {Parsed(last.idBefore)}
         ELSE calls = <<>> /\ last.err = ErrInvalidID

C5_Witness ==
    /\ Ran("delete")
    /\ CountSep(last.idBefore) = 2
    /\ last.err = ErrInvalidID
    /\ calls = <<>>

(* C6 as stated: read, update, delete and exists with a well-formed ID     *)
(* each issue exactly one remote call.                                     *)
C6_SingleRoundTrip ==
    (last.op \in {"read", "update", "delete", "exists"}
        /\ WellFormed(last.idBefore))
    => Len(calls) = 1

(* C6 amended: read, delete and exists with a well-formed ID issue exactly *)
(* one remote call; update issues its lock action and, that succeeding,    *)
(* the fields Update as a second call; create issues one to three calls.   *)
C6_RoundTrips ==
    /\ (last.op \in {"read", "delete", "exists"} /\ WellFormed(last.idBefore))
       => Len(calls) = 1
    /\ (Ran("update") /\ WellFormed(last.idBefore))
       => /\ Len(calls) \in {1, 2}
          /\ calls[1].op = "Run"
          /\ (Len(calls) = 2) <=> (calls[1].err = Nil)
    /\ Ran("create") => Len(calls) \in 1..3

C6_Witness ==
    /\ Ran("update")
    /\ WellFormed(last.idBefore)
    /\ Len(calls) = 2
    /\ calls[2].op = "Update"
    /\ FailedCalls = {}

(* C7: delete never unlocks: a delete of a deployment that is locked       *)
(* issues the Delete alone, is rejected by the service, and leaves the     *)
(* deployment in place and locked.                                         *)
C7_Step ==
    (/\ last'.op = "delete"
     /\ WellFormed(id)
     /\ Found(remote, Parsed(id))
     /\ remote[Parsed(id).Href].locked)
    => /\ Found(remote', Parsed(id))
       /\ remote'[Parsed(id).Href].locked
       /\ last'.err = ErrLocked
       /\ calls' = <<Call("Delete", {Parsed(id)}, "", ErrLocked)>>

C7_LockProtects == [][C7_Step]_vars

C7_Witness ==
    /\ Ran("delete")
    /\ last.err = ErrLocked
    /\ Found(remote, Parsed(last.idBefore))
    /\ remote[Parsed(last.idBefore).Href].locked

(* C8: delete, exists and update return the error of the remote call that  *)
(* failed, not found included, and keep the ID; exists is true only when   *)
(* Get succeeded, and false with the not-found error when Get found        *)
(* nothing.                                                                *)
C8_ErrorsVerbatim ==
    last.op \in {"delete", "exists", "update"} =>
        /\ id = last.idBefore
        /\ calls # <<>> =>
             /\ last.err = calls[Len(calls)].err
             /\ \A i \in 1..(Len(calls) - 1) : calls[i].err = Nil
        /\ Ran("exists") =>
             /\ last.exists =>
                  /\ calls # <<>> /\ calls[1].err = Nil
                  /\ Found(remote, Parsed(last.idBefore))
             /\ (calls # <<>> /\ calls[1].err = ErrNotFound) =>
                  ~last.exists /\ last.err = ErrNotFound

C8_Witness ==
    /\ Ran("exists")
    /\ calls # <<>>
    /\ calls[1].err = ErrNotFound
    /\ last.err = ErrNotFound
    /\ ~last.exists
    /\ id = last.idBefore

(* C9: update with a well-formed ID first runs the lock action chosen by   *)
(* "locked", then, only if that succeeded, the fields Update; the Update   *)
(* failing, the lock stays as set, the error is returned and partial mode  *)
(* stays on with "locked" alone marked.                                    *)
C9_LockThenFields ==
    (Ran("update") /\ WellFormed(last.idBefore)) =>
        /\ Len(calls) \in {1, 2}
        /\ calls[1] = Call("Run", {Parsed(last.idBefore)},
                           IF last.cfg.locked THEN LockAction ELSE UnlockAction,
                           calls[1].err)
        /\ Len(calls) = 2 =>
             /\ calls[1].err = Nil
             /\ calls[2] = Call("Update", {Parsed(last.idBefore)}, "",
                                calls[2].err)
        /\ calls[1].err # Nil => (Len(calls) = 1 /\ partial /\ partialKeys = {})
        /\ (Len(calls) = 2 /\ calls[2].err # Nil) =>
             /\ last.err = calls[2].err
             /\ partial
             /\ partialKeys = {"locked"}
             /\ remote[Parsed(last.idBefore).Href].locked = last.cfg.locked
        /\ FailedCalls = {} => (last.err = Nil /\ ~partial)

C9_Witness ==
    /\ Ran("update")
    /\ Len(calls) = 2
    /\ calls[2].err # Nil
    /\ last.cfg.locked
    /\ remote[Parsed(last.idBefore).Href].locked
    /\ partial
    /\ partialKeys = {"locked"}

(* C10: the ID a successful create stores is parsed back by locator into   *)
(* the Namespace and Href of the locator the remote Create returned.       *)
C10_RoundTrip ==
    (Ran("create") /\ last.err = Nil) =>
        locator(id) = [loc |-> calls[1].loc, err |-> Nil]

====
